---- MODULE Spec2Model ----
(***************************************************************************)
(* Model of minimax-mcp-tools' concurrency core:                           *)
(*   core/rate-limiter.ts   RateLimiter, AdaptiveRateLimiter               *)
(*   core/task-manager.ts   TaskManager, RateLimitedTaskManager            *)
(*   index.ts               the submit_* and task_barrier tool handlers    *)
(*   services, utils        what a work function returns or throws         *)
(*                                                                         *)
(* Atomicity.  JavaScript runs each promise callback to completion, so an  *)
(* action is one synchronous segment of the code between two suspension    *)
(* points (await / then / catch / finally / setTimeout).  Tool calls,      *)
(* timers and clock readings wait until the pending promise callbacks have *)
(* run.  A work function is an arbitrary promise-returning function, so    *)
(* the callbacks of different jobs interleave freely within one drain.     *)
(*                                                                         *)
(* Time is Date.now() in milliseconds, sampled every TickMs.  Rates are    *)
(* exact rationals <<numerator, denominator>> where the code uses doubles. *)
(* Two fields are written by the code and read nowhere, and are left out:  *)
(* AdaptiveRateLimiter.lastErrorTime and TaskResult.completedAt.           *)
(***************************************************************************)
EXTENDS Integers, Sequences, FiniteSets, TLC

\* ------------------------------------------------------------------ bounds
MaxTasks == 2        \* jobs submitted to the task manager
MaxBarriers == 2     \* task_barrier invocations
ManagerBurst == 1    \* cap on the burst of the manager's limiters
MaxAcquires == 4     \* acquire() calls on the limiter under test
HarnessBurst == 2    \* burst of the limiter under test
MaxTicks == 4        \* clock samples after construction
TickMs == 3000       \* milliseconds between two clock samples
MaxServerTicks == 2  \* clock samples in the models of the manager
MaxResets == 1       \* reset() / resetMetrics() calls
MaxErrors == 7       \* consecutive errors a limiter is driven to
MaxCategorized == 3  \* jobs submitted in the model of the wrapper alone

\* ------------------------------------------------------- program constants
window == 60000            \* RateLimiter constructor default
IMAGE_RPM == 10            \* RATE_LIMITS.IMAGE
IMAGE_BURST == 3
TTS_RPM == 20              \* RATE_LIMITS.TTS
TTS_BURST == 5
BackoffNum == 7            \* backoffFactor 0.7 = 7/10
BackoffDen == 10
RecoveryNum == 105         \* recoveryFactor 1.05 = 105/100
RecoveryDen == 100
maxBackoff == 5

Categories == {"image", "tts"}

RATE_LIMITS(type) ==
    IF type = "image" THEN [rpm |-> IMAGE_RPM, burst |-> IMAGE_BURST]
                      ELSE [rpm |-> TTS_RPM, burst |-> TTS_BURST]

\* ----------------------------------------------------------------- helpers
Min(a, b) == IF a < b THEN a ELSE b
Max(a, b) == IF a > b THEN a ELSE b

RECURSIVE Gcd(_, _)
Gcd(a, b) == IF b = 0 THEN a ELSE Gcd(b, a % b)

RECURSIVE Pow(_, _)
Pow(x, n) == IF n = 0 THEN 1 ELSE x * Pow(x, n - 1)

\* a rational in lowest terms
Rat(n, d) == LET g == Gcd(n, d) IN <<n \div g, d \div g>>
RatLess(p, q) == p[1] * q[2] < q[1] * p[2]
RatMin(p, q) == IF RatLess(p, q) THEN p ELSE q
\* no floor: the second argument whatever the first
RatSecond(p, q) == q
RatMax(p, q) == IF RatLess(p, q) THEN q ELSE p

\* a sequence of due times kept in firing order
RECURSIVE InsertSorted(_, _)
InsertSorted(s, x) ==
    IF s = <<>> THEN <<x>>
    ELSE IF x < Head(s) THEN <<x>> \o s
    ELSE <<Head(s)>> \o InsertSorted(Tail(s), x)

Range(s) == {s[i] : i \in 1..Len(s)}

\* <<quotient, remainder>> of a * b by c, without forming a * b (the
\* products of the code's doubles do not fit TLC's 32-bit integers)
RECURSIVE MulDivRem(_, _, _)
MulDivRem(a, b, c) ==
    IF a = 0 THEN <<0, 0>>
    ELSE LET h == MulDivRem(a \div 2, b, c)
             x == 2 * h[2] + (a % 2) * (b % c)
         IN <<2 * h[1] + (a % 2) * (b \div c) + x \div c, x % c>>

\* ------------------------------------------------- RateLimiter (pure part)
\* A limiter is a record
\*   rpm (rational), burst, tokens, lastRefill, queue (waiters, oldest first),
\*   timers (due times of the pending setTimeout callbacks),
\*   consecutiveErrors, originalRpm.
\* this.interval is window / rpm wherever the code assigns rpm, so it is
\* derived here.

NewLimiter(config, t) ==
    [rpm |-> Rat(config.rpm, 1), burst |-> config.burst, tokens |-> config.burst,
     lastRefill |-> t, queue |-> <<>>, timers |-> <<>>,
     consecutiveErrors |-> 0, originalRpm |-> config.rpm]

\* Math.floor(timePassed / this.interval), interval = window / rpm
TokensToAdd(l, t) == MulDivRem(t - l.lastRefill, l.rpm[1], l.rpm[2])[1] \div window

\* a refill that leaves lastRefill where it was
RefillKeepsLastRefill(l, t) ==
    [l EXCEPT !.tokens = Min(l.burst, l.tokens + TokensToAdd(l, t))]

\* RateLimiter.refillTokens at time t
RefillTokens(l, t) ==
    IF TokensToAdd(l, t) > 0
    THEN [l EXCEPT !.tokens = Min(l.burst, l.tokens + TokensToAdd(l, t)),
                   !.lastRefill = t]
    ELSE l

\* The first time at which a setTimeout of Math.max(0, interval - (now -
\* lastRefill)) set at time t may run: a timer never runs before its delay.
CeilInterval(l) ==
    LET d == MulDivRem(window, l.rpm[2], l.rpm[1])
    IN d[1] + (IF d[2] > 0 THEN 1 ELSE 0)
TimerDue(l, t) == t + Max(0, CeilInterval(l) - (t - l.lastRefill))

\* last in, first out: this.queue.pop()
ShiftLast(q) == [request |-> q[Len(q)], rest |-> SubSeq(q, 1, Len(q) - 1)]
\* this.queue.shift()
Shift(q) == [request |-> Head(q), rest |-> Tail(q)]

\* the loop without its tokens > 0 test: every waiter is resolved
RECURSIVE DrainAll(_, _, _)
DrainAll(l, t, resolved) ==
    IF Len(l.queue) > 0
    THEN DrainAll([l EXCEPT !.queue = Shift(l.queue).rest,
                            !.tokens = l.tokens - 1,
                            !.timers = InsertSorted(l.timers, TimerDue(l, t))],
                  t, Append(resolved, Shift(l.queue).request))
    ELSE [limiter |-> l, resolved |-> resolved]

\* the while loop of processQueue: the waiters it resolves, in order
RECURSIVE Drain(_, _, _)
Drain(l, t, resolved) ==
    IF Len(l.queue) > 0 /\ l.tokens > 0
    THEN Drain([l EXCEPT !.queue = Shift(l.queue).rest,
                         !.tokens = l.tokens - 1,
                         !.timers = InsertSorted(l.timers, TimerDue(l, t))],
               t, Append(resolved, Shift(l.queue).request))
    ELSE [limiter |-> l, resolved |-> resolved]

ProcessQueue(l, t) ==
    IF Len(l.queue) = 0 THEN [limiter |-> l, resolved |-> <<>>]
    ELSE Drain(RefillTokens(l, t), t, <<>>)

\* acquire(): push, then processQueue
Acquire(l, who, t) == ProcessQueue([l EXCEPT !.queue = Append(l.queue, who)], t)

\* getStatus(): refills, then reads
GetStatus(l, t) == RefillTokens(l, t)

\* a reset() that leaves the queue as it is
ResetKeepsQueue(l, t) == [l EXCEPT !.tokens = l.burst, !.lastRefill = t]

\* reset(): the pending timers are not cancelled
Reset(l, t) == [l EXCEPT !.tokens = l.burst, !.lastRefill = t, !.queue = <<>>]

\* ------------------------------------------- AdaptiveRateLimiter (pure part)
\* recovery on every success of a penalized limiter
OnSuccessEager(l) ==
    IF l.consecutiveErrors > 0
    THEN [l EXCEPT !.consecutiveErrors = Max(0, l.consecutiveErrors - 1),
                   !.rpm = RatMin(Rat(l.originalRpm, 1),
                                  Rat(l.rpm[1] * RecoveryNum, l.rpm[2] * RecoveryDen))]
    ELSE l

OnSuccess(l) ==
    IF l.consecutiveErrors > 0
    THEN LET ce == Max(0, l.consecutiveErrors - 1) IN
         IF ce = 0
         THEN [l EXCEPT !.consecutiveErrors = ce,
                        !.rpm = RatMin(Rat(l.originalRpm, 1),
                                       Rat(l.rpm[1] * RecoveryNum, l.rpm[2] * RecoveryDen))]
         ELSE [l EXCEPT !.consecutiveErrors = ce]
    ELSE l

\* backoffFactor ^ consecutiveErrors, the exponent not capped
BackoffUncapped(ce) == Rat(Pow(BackoffNum, ce), Pow(BackoffDen, ce))

\* backoffMultiplier = backoffFactor ^ min(consecutiveErrors, maxBackoff)
BackoffMultiplier(ce) ==
    Rat(Pow(BackoffNum, Min(ce, maxBackoff)), Pow(BackoffDen, Min(ce, maxBackoff)))

\* error instanceof MinimaxError
IsMinimaxError(error) == error.code # ""

\* error instanceof MinimaxRateLimitError
IsRateLimitError(error) == error.class = "MinimaxRateLimitError"

\* an onError that lowers the rate and leaves the tokens
OnErrorKeepsTokens(l, error) ==
    IF IsRateLimitError(error)
    THEN LET ce == l.consecutiveErrors + 1
             m == BackoffMultiplier(ce)
         IN [l EXCEPT !.consecutiveErrors = ce,
                      !.rpm = RatMax(Rat(1, 1), Rat(l.originalRpm * m[1], m[2]))]
    ELSE l

OnError(l, error) ==
    IF IsRateLimitError(error)
    THEN LET ce == l.consecutiveErrors + 1
             m == BackoffMultiplier(ce)
         IN [l EXCEPT !.consecutiveErrors = ce,
                      !.rpm = RatMax(Rat(1, 1), Rat(l.originalRpm * m[1], m[2])),
                      !.tokens = Min(l.tokens, (l.burst * m[1]) \div m[2])]
    ELSE l

\* ------------------------------------------------------------------- state
MaxJobs == Max(MaxTasks, MaxAcquires)
Jobs == 1..MaxJobs
Barriers == 1..MaxBarriers

VARIABLES
    now,             \* Date.now()
    limiters,        \* RateLimitedTaskManager.rateLimiters: category -> limiter
    metrics,         \* RateLimitedTaskManager.metrics: category -> counts
    phase,           \* where each job's promise chain stands
    category,        \* the limiter a job goes through
    taskId,          \* the id a job was submitted under
    idsource,        \* who chose a job's id: the caller or generateTaskId (history)
    outcome,         \* how a job's wrapped function settled
    reply,           \* how the remote call of a job ended (history)
    tasks,           \* TaskManager.tasks: id -> job whose promise is stored
    completedTasks,  \* TaskManager.completedTasks: id -> TaskResult
    handled,         \* jobs whose task promise has a reaction attached
    unhandled,       \* jobs whose task promise rejected with no reaction
    bpc,             \* where each task_barrier invocation stands
    bsnap,           \* barrier(): activeTasks
    bresults,        \* barrier(): results, as id -> entry
    bcount,          \* barrier(): completed
    continuations,   \* barrier calls whose next step is a pending microtask, oldest first
    bresponse,       \* the lines of the tool response
    \* history, read by the properties only
    arrivals,        \* jobs in the order of their acquire() calls
    grantLog,        \* jobs in the order their acquire() was resolved
    grantTime,       \* when each job's acquire() was resolved
    waited,          \* jobs left in the queue by their own acquire()
    resets,          \* reset() / resetMetrics() calls so far
    reported,        \* the last onSuccess() / onError() call made directly
    binflight,       \* the jobs RUNNING when the barrier was called, and their phase
    bcompleted,      \* ids completed and uncleared when the barrier was called
    lost,            \* jobs whose outcome was cleared before any response held it
    retryAttempts,   \* MinimaxBaseClient.retryConfig.attempts
    attempt,         \* executeWithRetry's attempt parameter, 0 before the request
    rpc,             \* where the request stands
    httpLog,         \* how each attempt of the request ended (history)
    processedError   \* the error the last failed attempt was classified as

limiterVars == <<limiters, arrivals, grantLog, grantTime, waited, resets, reported>>
registryVars ==
    <<tasks, completedTasks, handled, unhandled, category, taskId, idsource, outcome, reply>>
clientVars == <<retryAttempts, attempt, rpc, httpLog, processedError>>
barrierVars == <<bpc, bsnap, bresults, bcount, bresponse, continuations, binflight, bcompleted, lost>>
vars == <<now, metrics, phase, limiterVars, registryVars, barrierVars, clientVars>>

NoReport == [op |-> "none", class |-> "none", consecutiveErrors |-> 0, streak |-> 0]
NoMetrics == [requests |-> 0, successes |-> 0, errors |-> 0]
EmptyMap == [x \in {} |-> 0]
NoError == [class |-> "none", message |-> "", code |-> ""]
NoResult == [kind |-> "none", success |-> FALSE]
NoOutcome == [state |-> "pending", result |-> NoResult, error |-> NoError]
Fulfilled(result) == [state |-> "fulfilled", result |-> result, error |-> NoError]
Rejected(error) == [state |-> "rejected", result |-> NoResult, error |-> error]

\* ConfigManager.loadConfig: parseInt(process.env.RETRY_ATTEMPTS || '3', 10),
\* a number or NaN
DefaultRetryAttempts == 3
Number(n) == [nan |-> FALSE, n |-> n]
NaN == [nan |-> TRUE, n |-> 0]
\* a >= x where x may be NaN: a comparison with NaN is false
AtLeast(a, x) == ~x.nan /\ a >= x.n

\* new MinimaxBaseClient(): retryConfig = config.getRetryConfig(), no request
\* made yet
ClientInit(attempts) ==
    /\ retryAttempts = attempts
    /\ attempt = 0
    /\ rpc = "idle"
    /\ httpLog = <<>>
    /\ processedError = [class |-> "none", message |-> "", code |-> ""]

InitServer(config) ==
    /\ now = 0
    /\ limiters = [c \in Categories |-> NewLimiter(config[c], 0)]
    /\ metrics = [c \in Categories |-> NoMetrics]
    /\ phase = [j \in Jobs |-> "new"]
    /\ category = [j \in Jobs |-> "none"]
    /\ taskId = [j \in Jobs |-> 0]
    /\ idsource = [j \in Jobs |-> "none"]
    /\ outcome = [j \in Jobs |-> NoOutcome]
    /\ reply = [j \in Jobs |-> "none"]
    /\ tasks = EmptyMap
    /\ completedTasks = EmptyMap
    /\ handled = {}
    /\ unhandled = {}
    /\ bpc = [b \in Barriers |-> "idle"]
    /\ bsnap = [b \in Barriers |-> {}]
    /\ bresults = [b \in Barriers |-> EmptyMap]
    /\ bcount = [b \in Barriers |-> 0]
    /\ continuations = <<>>
    /\ bresponse = [b \in Barriers |-> {}]
    /\ arrivals = <<>>
    /\ grantLog = <<>>
    /\ grantTime = [j \in Jobs |-> -1]
    /\ waited = {}
    /\ resets = 0
    /\ reported = NoReport
    /\ binflight = [b \in Barriers |-> EmptyMap]
    /\ bcompleted = [b \in Barriers |-> {}]
    /\ lost = {}

\* RETRY_ATTEMPTS not set
InitWith(config) == ClientInit(Number(DefaultRetryAttempts)) /\ InitServer(config)

\* new RateLimitedTaskManager(): RATE_LIMITS, with the burst capped at
\* ManagerBurst so that MaxTasks jobs can empty a bucket
ManagerLimits(c) ==
    [rpm |-> RATE_LIMITS(c).rpm, burst |-> Min(RATE_LIMITS(c).burst, ManagerBurst)]

Init == InitWith([c \in Categories |-> ManagerLimits(c)])

\* new AdaptiveRateLimiter({rpm, burst, backoffFactor: 0.7, recoveryFactor: 1.05})
InitLimiter == InitWith([c \in Categories |-> [rpm |-> IMAGE_RPM, burst |-> HarnessBurst]])

\* ------------------------------------------------------------------ errors
\* new MinimaxError(message) and its subclasses; an error is its class
\* (constructor name), its message and its code property
MinimaxError(message) ==
    [class |-> "MinimaxError", message |-> message, code |-> "MINIMAX_ERROR"]
MinimaxConfigError(message) ==
    [class |-> "MinimaxConfigError", message |-> message, code |-> "CONFIG_ERROR"]
MinimaxValidationError(message) ==
    [class |-> "MinimaxValidationError", message |-> message, code |-> "VALIDATION_ERROR"]
MinimaxAPIError(message, statusCode) ==
    [class |-> "MinimaxAPIError", message |-> message, code |-> "API_ERROR",
     statusCode |-> statusCode]
MinimaxNetworkError(message) ==
    [class |-> "MinimaxNetworkError", message |-> message, code |-> "NETWORK_ERROR"]
MinimaxTimeoutError(message) ==
    [class |-> "MinimaxTimeoutError", message |-> message, code |-> "TIMEOUT_ERROR"]
MinimaxRateLimitError(message) ==
    [class |-> "MinimaxRateLimitError", message |-> message, code |-> "RATE_LIMIT_ERROR"]

RateLimitError == MinimaxRateLimitError("Rate limit exceeded")
GenericError == MinimaxError("failed")

\* error.message.match(/HTTP (\d+):/), 0 where the message does not hold 'HTTP'
HttpStatus(message) ==
    CASE message = "HTTP 401: Unauthorized" -> 401
      [] message = "HTTP 429: Too Many Requests" -> 429
      [] message = "HTTP 500: Internal Server Error" -> 500
      [] message = "HTTP 503: Service Unavailable" -> 503
      [] OTHER -> 0

\* error.message.includes('timeout')
IncludesTimeout(message) ==
    message \in {"Request timeout", "network timeout at: https://api.minimaxi.com"}

\* ErrorHandler.handleAPIError(error, response); status_code is
\* response.base_resp.status_code, 0 where no response is passed
handleAPIError(error, status_code) ==
    IF status_code # 0
    THEN CASE status_code = 1004 -> MinimaxAPIError("Authentication failed: status_msg", status_code)
           [] status_code = 1013 -> MinimaxRateLimitError("Rate limit exceeded: status_msg")
           [] OTHER -> MinimaxAPIError("status_msg", status_code)
    ELSE IF HttpStatus(error.message) # 0
    THEN CASE HttpStatus(error.message) = 401 ->
                MinimaxAPIError("Unauthorized: Invalid API key", 401)
           [] HttpStatus(error.message) = 429 ->
                MinimaxRateLimitError("Rate limit exceeded")
           [] HttpStatus(error.message) = 500 ->
                MinimaxAPIError("Internal server error", 500)
           [] OTHER -> MinimaxAPIError(error.message, HttpStatus(error.message))
    ELSE IF error.code \in {"ECONNREFUSED", "ENOTFOUND"}
    THEN MinimaxNetworkError("Network connection failed")
    ELSE IF error.class = "AbortError" \/ IncludesTimeout(error.message)
    THEN MinimaxTimeoutError("Request timeout")
    ELSE MinimaxError(error.message)

\* ---------------------------------------------- limiter steps (shared part)
\* The effect on the state of one call r of Acquire / ProcessQueue on the
\* limiter of category c: the limiter's new fields, and each resolved waiter's
\* promise resolved.
\* one limiter shared by the categories
LimiterStepShared(c, r, caller) ==
    /\ limiters' = [d \in Categories |-> r.limiter]
    /\ phase' = [j \in Jobs |->
                    IF j \in Range(r.resolved) THEN "granted"
                    ELSE IF j = caller THEN "queued"
                    ELSE phase[j]]
    /\ grantLog' = grantLog \o r.resolved
    /\ grantTime' = [j \in Jobs |-> IF j \in Range(r.resolved) THEN now ELSE grantTime[j]]
    /\ arrivals' = IF caller \in Jobs THEN Append(arrivals, caller) ELSE arrivals
    /\ waited' = IF caller \in Jobs /\ caller \notin Range(r.resolved)
                 THEN waited \cup {caller} ELSE waited

LimiterStep(c, r, caller) ==
    /\ limiters' = [limiters EXCEPT ![c] = r.limiter]
    /\ phase' = [j \in Jobs |->
                    IF j \in Range(r.resolved) THEN "granted"
                    ELSE IF j = caller THEN "queued"
                    ELSE phase[j]]
    /\ grantLog' = grantLog \o r.resolved
    /\ grantTime' = [j \in Jobs |-> IF j \in Range(r.resolved) THEN now ELSE grantTime[j]]
    /\ arrivals' = IF caller \in Jobs THEN Append(arrivals, caller) ELSE arrivals
    /\ waited' = IF caller \in Jobs /\ caller \notin Range(r.resolved)
                 THEN waited \cup {caller} ELSE waited

\* setTimeout(() => this.processQueue(), delay): the earliest pending timer runs
TimerFires(c) ==
    /\ limiters[c].timers # <<>>
    /\ Head(limiters[c].timers) <= now
    /\ LimiterStep(c, ProcessQueue([limiters[c] EXCEPT !.timers = Tail(@)], now), 0)
    /\ UNCHANGED <<clientVars, now, metrics, resets, reported, registryVars, barrierVars>>

\* the clock
Tick(max) ==
    /\ now < max * TickMs
    /\ now' = now + TickMs
    /\ UNCHANGED <<clientVars, metrics, phase, limiterVars, registryVars, barrierVars>>

\* getStatus() / getAdaptiveStatus() on one limiter
ReadStatus(c) ==
    /\ limiters' = [limiters EXCEPT ![c] = GetStatus(limiters[c], now)]
    /\ UNCHANGED <<clientVars, now, metrics, phase, arrivals, grantLog, grantTime, waited, resets, reported,
                   registryVars, barrierVars>>

\* --------------------------------- one limiter driven directly by its callers
\* Each caller calls acquire() once and, when granted, reports its result once
\* with onSuccess() or onError(error), as the wrapper of submitRateLimitedTask
\* does.  The limiter is the image limiter.
LimAcquire(j) ==
    /\ j <= MaxAcquires
    /\ phase[j] = "new"
    /\ \A i \in 1..(j - 1) : phase[i] # "new"
    /\ LimiterStep("image", Acquire(limiters["image"], j, now), j)
    /\ UNCHANGED <<clientVars, now, metrics, resets, reported, registryVars, barrierVars>>

LimOnSuccess(j) ==
    /\ phase[j] = "granted"
    /\ phase' = [phase EXCEPT ![j] = "done"]
    /\ limiters' = [limiters EXCEPT !["image"] = OnSuccess(@)]
    /\ UNCHANGED <<clientVars, now, metrics, arrivals, grantLog, grantTime, waited, resets, reported,
                   registryVars, barrierVars>>

LimOnError(j, error) ==
    /\ phase[j] = "granted"
    /\ phase' = [phase EXCEPT ![j] = "done"]
    /\ limiters' = [limiters EXCEPT !["image"] = OnError(@, error)]
    /\ UNCHANGED <<clientVars, now, metrics, arrivals, grantLog, grantTime, waited, resets, reported,
                   registryVars, barrierVars>>

LimReset ==
    /\ resets < MaxResets
    /\ resets' = resets + 1
    /\ limiters' = [limiters EXCEPT !["image"] = Reset(@, now)]
    /\ UNCHANGED <<clientVars, now, metrics, phase, arrivals, grantLog, grantTime, waited, reported,
                   registryVars, barrierVars>>

\* a limiter whose rate never changes: no rate-limit error, no reset
NextFixedRate ==
    \/ \E j \in Jobs : LimAcquire(j)
    \/ \E j \in Jobs : LimOnSuccess(j)
    \/ \E j \in Jobs : LimOnError(j, GenericError)
    \/ TimerFires("image")
    \/ ReadStatus("image")
    \/ Tick(MaxTicks)

SpecFixedRate == InitLimiter /\ [][NextFixedRate]_vars

NextLimiter ==
    \/ \E j \in Jobs : LimAcquire(j)
    \/ \E j \in Jobs : LimOnSuccess(j)
    \/ \E j \in Jobs, error \in {RateLimitError, GenericError} : LimOnError(j, error)
    \/ TimerFires("image")
    \/ ReadStatus("image")
    \/ Tick(MaxTicks)

SpecLimiter == InitLimiter /\ [][NextLimiter]_vars

\* the same, with reset()
NextLimiterReset == NextLimiter \/ LimReset

SpecLimiterReset == InitLimiter /\ [][NextLimiterReset]_vars

\* ------------------------------- the adaptive part driven by direct reports
\* onSuccess() and onError(error) are public: they are called at any time,
\* with any error, on a limiter of any configured RPM >= 1.  RPM 1 and 2 make
\* the floor of onError and the cap of onSuccess bind.
ConfiguredRpms == {1, 2, IMAGE_RPM}

ReportedErrors ==
    {RateLimitError, GenericError, MinimaxValidationError("invalid"),
     MinimaxNetworkError("Network connection failed"),
     MinimaxTimeoutError("Request timeout"),
     [class |-> "Error", message |-> "failed", code |-> ""]}

InitAdaptive ==
    \E rpm \in ConfiguredRpms :
        InitWith([c \in Categories |-> [rpm |-> rpm, burst |-> HarnessBurst]])

\* the burst values a caller of the constructor passes: the constructor takes
\* any number
ConfiguredBursts == {0, HarnessBurst}

\* new AdaptiveRateLimiter({rpm, burst}) for any of these bursts
InitConfigured ==
    \E burst \in ConfiguredBursts :
        InitWith([c \in Categories |-> [rpm |-> IMAGE_RPM, burst |-> burst]])

SpecConfigured == InitConfigured /\ [][NextFixedRate]_vars

\* onSuccess()
CallOnSuccess ==
    /\ limiters' = [limiters EXCEPT !["image"] = OnSuccess(@)]
    /\ reported' = [op |-> "success", class |-> "none",
                    consecutiveErrors |-> limiters["image"].consecutiveErrors,
                    streak |-> 0]
    /\ UNCHANGED <<clientVars, now, metrics, phase, arrivals, grantLog, grantTime, waited, resets,
                   registryVars, barrierVars>>

\* onError(error); streak counts the rate-limit errors reported in a row
\* since the counter was 0
CallOnError(error) ==
    /\ limiters["image"].consecutiveErrors < MaxErrors
    /\ limiters' = [limiters EXCEPT !["image"] = OnError(@, error)]
    /\ reported' = [op |-> "error", class |-> error.class,
                    consecutiveErrors |-> limiters["image"].consecutiveErrors,
                    streak |-> IF ~IsRateLimitError(error) THEN reported.streak
                               ELSE IF limiters["image"].consecutiveErrors = 0 THEN 1
                               ELSE IF reported.streak > 0 THEN reported.streak + 1
                               ELSE 0]
    /\ UNCHANGED <<clientVars, now, metrics, phase, arrivals, grantLog, grantTime, waited, resets,
                   registryVars, barrierVars>>

NextAdaptive ==
    \/ CallOnSuccess
    \/ \E error \in ReportedErrors : CallOnError(error)
    \/ \E j \in Jobs : LimAcquire(j)
    \/ LimReset

SpecAdaptive == InitAdaptive /\ [][NextAdaptive]_vars

\* ---------------------------------------------------------------- services
\* What the remote call of one generation request ends with.
RemoteOutcomes == {"ok", "http429", "api1013"}

\* what fetch, response.ok and processResponse make executeWithRetry throw
\* inside its try block
RawError(remote) ==
    CASE remote = "http429" ->
            [class |-> "Error", message |-> "HTTP 429: Too Many Requests", code |-> ""]
      [] remote = "api1013" ->
            handleAPIError([class |-> "Error", message |-> "API Error", code |-> ""], 1013)
      [] remote = "http500" ->
            [class |-> "Error", message |-> "HTTP 500: Internal Server Error", code |-> ""]
      [] remote = "econnrefused" ->
            [class |-> "FetchError", message |-> "connect ECONNREFUSED", code |-> "ECONNREFUSED"]
      [] remote = "http401" ->
            [class |-> "Error", message |-> "HTTP 401: Unauthorized", code |-> ""]
      [] remote = "http503" ->
            [class |-> "Error", message |-> "HTTP 503: Service Unavailable", code |-> ""]
      [] remote = "abort" ->
            [class |-> "AbortError", message |-> "The user aborted a request.", code |-> ""]
      [] OTHER -> [class |-> "Error", message |-> "failed", code |-> ""]

\* MinimaxBaseClient.post -> executeWithRetry, at its last attempt
Post(remote) ==
    IF remote = "ok" THEN Fulfilled([kind |-> "response", success |-> TRUE])
    ELSE Rejected(handleAPIError(RawError(remote), 0))

\* ---------------------------------------------- the client's retry loop
MaxAttempts == 4

\* how one fetch of the request may end: a response, an HTTP status, an API
\* status in the body, a refused connection, the abort of the timeout
AttemptOutcomes ==
    {"ok", "http401", "http429", "http500", "http503", "api1013", "econnrefused", "abort"}

\* what RETRY_ATTEMPTS may parse to
RetryAttemptsValues == {Number(0), Number(1), Number(2), Number(DefaultRetryAttempts), NaN}

\* shouldRetry(error, attempt)
shouldRetry(error, a) ==
    IF AtLeast(a, retryAttempts) THEN FALSE
    ELSE \/ error.code = "NETWORK_ERROR"
         \/ error.code = "TIMEOUT_ERROR"
         \/ ("statusCode" \in DOMAIN error
                /\ error.statusCode >= 500 /\ error.statusCode < 600)

\* makeRequest(endpoint, options): executeWithRetry(url, requestOptions) with
\* attempt = 1, up to its fetch
MakeRequest ==
    /\ rpc = "idle"
    /\ rpc' = "fetching"
    /\ attempt' = 1
    /\ UNCHANGED <<retryAttempts, httpLog, processedError, now, metrics, phase, limiterVars,
                   registryVars, barrierVars>>

\* executeWithRetry from the end of its fetch: the response returned, or the
\* catch block, which classifies the error and then waits to try again or
\* throws
Attempt(remote) ==
    /\ rpc = "fetching"
    /\ httpLog' = Append(httpLog, remote)
    /\ IF remote = "ok"
       THEN rpc' = "returned" /\ UNCHANGED processedError
       ELSE /\ processedError' = handleAPIError(RawError(remote), 0)
            /\ rpc' = IF shouldRetry(handleAPIError(RawError(remote), 0), attempt)
                      THEN "delaying" ELSE "thrown"
    /\ UNCHANGED <<retryAttempts, attempt, now, metrics, phase, limiterVars, registryVars,
                   barrierVars>>

\* await this.delay(...) is over: executeWithRetry(url, requestOptions,
\* attempt + 1), up to its fetch
Retry ==
    /\ rpc = "delaying"
    /\ attempt < MaxAttempts
    /\ rpc' = "fetching"
    /\ attempt' = attempt + 1
    /\ UNCHANGED <<retryAttempts, httpLog, processedError, now, metrics, phase, limiterVars,
                   registryVars, barrierVars>>

NextClient ==
    \/ MakeRequest
    \/ \E remote \in AttemptOutcomes : Attempt(remote)
    \/ Retry

\* new MinimaxBaseClient() under any value of RETRY_ATTEMPTS
InitClient ==
    /\ \E attempts \in RetryAttemptsValues : ClientInit(attempts)
    /\ InitServer([c \in Categories |-> ManagerLimits(c)])

SpecClient == InitClient /\ [][NextClient]_vars

\* ImageGenerationService.generateImage: the catch block returns a result
ImageFailure(error) == Fulfilled([kind |-> "image", success |-> FALSE])
generateImage(remote) ==
    IF Post(remote).state = "fulfilled"
    THEN Fulfilled([kind |-> "image", success |-> TRUE])
    ELSE ImageFailure(handleAPIError(Post(remote).error, 0))

\* TextToSpeechService.generateSpeech: the catch block throws
generateSpeech(remote) ==
    IF Post(remote).state = "fulfilled"
    THEN Fulfilled([kind |-> "tts", success |-> TRUE])
    ELSE Rejected(handleAPIError(Post(remote).error, 0))

\* the work function the submit_* handler of a category hands over
WorkFunction(c, remote) ==
    IF c = "image" THEN generateImage(remote) ELSE generateSpeech(remote)

\* ------------------------------------------------------------- TaskManager
Running == {"submitted", "queued", "granted", "executing", "settled", "recorded"}

\* generateTaskId(): 'task_' + Date.now() + '_' + 9 random base-36 digits.
\* The ids of tracked tasks are taken to be distinct (the data model's
\* requirement on ids): the job's number stands for its id.
generateTaskId(j) == j

MapSet(m, k, v) == [x \in DOMAIN m \cup {k} |-> IF x = k THEN v ELSE m[x]]
MapDelete(m, k) == [x \in DOMAIN m \ {k} |-> m[x]]

\* the ids a caller passes to submit(fn, taskId)
TaskIds == 1..MaxTasks

\* TaskManager.submit(fn, id), up to its return: the chain is built, the
\* promise stored under id, whatever promise was stored there before
SubmitAs(j, c, id, source, max) ==
    /\ j <= max
    /\ phase[j] = "new"
    /\ \A i \in 1..(j - 1) : phase[i] # "new"
    /\ phase' = [phase EXCEPT ![j] = "submitted"]
    /\ category' = [category EXCEPT ![j] = c]
    /\ taskId' = [taskId EXCEPT ![j] = id]
    /\ idsource' = [idsource EXCEPT ![j] = source]
    /\ tasks' = MapSet(tasks, id, j)
    /\ UNCHANGED <<clientVars, now, metrics, limiterVars, completedTasks, handled, unhandled,
                   outcome, reply, barrierVars>>

\* TaskManager.submit(fn): taskId = taskId || this.generateTaskId()
SubmitWithin(j, c, max) == SubmitAs(j, c, generateTaskId(j), "generated", max)

Submit(j, c) == SubmitWithin(j, c, MaxTasks)

\* a wrapper that goes on to fn() without acquire()
StartUngated(j) ==
    /\ phase[j] = "submitted"
    /\ phase' = [phase EXCEPT ![j] = "granted"]
    /\ UNCHANGED <<clientVars, now, metrics, limiterVars, registryVars, barrierVars>>

\* wrappedFn starts: await rateLimiter.acquire()
Start(j) ==
    /\ phase[j] = "submitted"
    /\ LimiterStep(category[j], Acquire(limiters[category[j]], j, now), j)
    /\ UNCHANGED <<clientVars, now, metrics, resets, reported, registryVars, barrierVars>>

\* wrappedFn after acquire(): requests++, then fn() is called
Admit(j) ==
    /\ phase[j] = "granted"
    /\ category[j] \in Categories
    /\ phase' = [phase EXCEPT ![j] = "executing"]
    /\ metrics' = [metrics EXCEPT ![category[j]].requests = @ + 1]
    /\ UNCHANGED <<clientVars, now, limiterVars, registryVars, barrierVars>>

\* a catch block that counts and reports the error and does not rethrow it
SettleSwallows(j, r, settled) ==
    /\ phase[j] = "executing"
    /\ phase' = [phase EXCEPT ![j] = "settled"]
    /\ outcome' = [outcome EXCEPT ![j] = Fulfilled(NoResult)]
    /\ reply' = [reply EXCEPT ![j] = r]
    /\ IF settled.state = "fulfilled"
       THEN /\ metrics' = [metrics EXCEPT ![category[j]].successes = @ + 1]
            /\ limiters' = [limiters EXCEPT ![category[j]] = OnSuccess(@)]
       ELSE /\ metrics' = [metrics EXCEPT ![category[j]].errors = @ + 1]
            /\ limiters' = [limiters EXCEPT ![category[j]] = OnError(@, settled.error)]
    /\ UNCHANGED <<clientVars, now, arrivals, grantLog, grantTime, waited, resets, reported, tasks,
                   completedTasks, handled, unhandled, category, taskId, idsource, barrierVars>>

\* wrappedFn after fn() settled: the try / catch around await fn()
Settle(j, r, settled) ==
    /\ phase[j] = "executing"
    /\ phase' = [phase EXCEPT ![j] = "settled"]
    /\ outcome' = [outcome EXCEPT ![j] = settled]
    /\ reply' = [reply EXCEPT ![j] = r]
    /\ IF settled.state = "fulfilled"
       THEN /\ metrics' = [metrics EXCEPT ![category[j]].successes = @ + 1]
            /\ limiters' = [limiters EXCEPT ![category[j]] = OnSuccess(@)]
       ELSE /\ metrics' = [metrics EXCEPT ![category[j]].errors = @ + 1]
            /\ limiters' = [limiters EXCEPT ![category[j]] = OnError(@, settled.error)]
    /\ UNCHANGED <<clientVars, now, arrivals, grantLog, grantTime, waited, resets, reported, tasks,
                   completedTasks, handled, unhandled, category, taskId, idsource, barrierVars>>

\* the TaskResult the then / catch callback of submit stores
TaskResult(j, settled) ==
    IF settled.state = "fulfilled"
    THEN [success |-> TRUE, result |-> settled.result, error |-> NoError, job |-> j]
    ELSE [success |-> FALSE, result |-> NoResult,
          error |-> handleAPIError(settled.error, 0), job |-> j]

\* submit's .then(result => ...) or .catch(error => ...) callback
Record(j) ==
    /\ phase[j] = "settled"
    /\ phase' = [phase EXCEPT ![j] = "recorded"]
    /\ completedTasks' = MapSet(completedTasks, taskId[j], TaskResult(j, outcome[j]))
    /\ UNCHANGED <<clientVars, now, metrics, limiterVars, tasks, handled, unhandled, category,
                   taskId, idsource, outcome, reply, barrierVars>>

\* Promise.any-like resolution: one of the task promises S is settled in ph
AnySettled(S, ph) == \E j \in S : ph[j] = "done"
\* a wait for every tracked task, the ones submitted after the call included
AllTracked(S, ph) == \A j \in Jobs : ph[j] \notin Running
\* Promise.allSettled(activeTasks) resolves: the task promises S are settled
\* in ph
AllSettled(S, ph) == \A j \in S : ph[j] = "done"

\* the barrier() calls a settling task promise resumes, in call order
Resumed(ph) ==
    SelectSeq([b \in Barriers |-> b],
              LAMBDA b : /\ bpc[b] = "waiting"
                         /\ b \notin Range(continuations)
                         /\ AllSettled(bsnap[b], ph))

\* submit's .finally(() => this.tasks.delete(taskId)); the task promise then
\* settles: the allSettled of a waiting barrier() may resolve, and a rejection
\* nobody has a reaction for is an unhandled rejection
Finally(j) ==
    /\ phase[j] = "recorded"
    /\ phase' = [phase EXCEPT ![j] = "done"]
    /\ tasks' = MapDelete(tasks, taskId[j])
    /\ unhandled' = IF outcome[j].state = "rejected" /\ j \notin handled
                    THEN unhandled \cup {j} ELSE unhandled
    /\ continuations' = continuations \o Resumed(phase')
    /\ UNCHANGED <<clientVars, now, metrics, limiterVars, completedTasks, handled, category,
                   taskId, idsource, outcome, reply, bpc, bsnap, bresults, bcount, bresponse,
                   binflight, bcompleted, lost>>

\* getTaskStatus(taskId)
getTaskStatus(id) ==
    IF id \in DOMAIN tasks THEN [status |-> "running", taskId |-> id]
    ELSE IF id \in DOMAIN completedTasks
    THEN [status |-> "completed", taskId |-> id,
          success |-> completedTasks[id].success,
          result |-> completedTasks[id].result,
          error |-> completedTasks[id].error]
    ELSE [status |-> "not_found", taskId |-> id]

\* getAllTasksStatus()
getAllTasksStatus ==
    [running |-> DOMAIN tasks, completed |-> DOMAIN completedTasks,
     total |-> Cardinality(DOMAIN tasks) + Cardinality(DOMAIN completedTasks)]

\* getStats()
getStats ==
    [activeTasks |-> Cardinality(DOMAIN tasks),
     completedTasks |-> Cardinality(DOMAIN completedTasks)]

\* ------------------------------------------------------ task_barrier handler
\* barrier(): Array.from(this.completedTasks.entries()).map(...)
BarrierResults == completedTasks

\* the length of the snapshot of active tasks in place of results.length
ActiveLength(results) == Cardinality(DOMAIN tasks)
\* completed: results.length
ResultsLength(results) == Cardinality(DOMAIN results)

\* the handler called: barrier() runs up to its await; with no active task it
\* runs to its return
BarrierCall(b) ==
    /\ bpc[b] = "idle"
    /\ \A i \in 1..(b - 1) : bpc[i] # "idle"
    /\ LET activeTasks == {tasks[id] : id \in DOMAIN tasks} IN
        /\ bsnap' = [bsnap EXCEPT ![b] = activeTasks]
        /\ handled' = handled \cup activeTasks
        /\ IF activeTasks # {}
           THEN /\ bpc' = [bpc EXCEPT ![b] = "waiting"]
                /\ UNCHANGED <<bresults, bcount, continuations>>
           ELSE /\ bpc' = [bpc EXCEPT ![b] = "returned"]
                /\ bresults' = [bresults EXCEPT ![b] = BarrierResults]
                /\ bcount' = [bcount EXCEPT ![b] = ResultsLength(BarrierResults)]
                /\ continuations' = Append(continuations, b)
    /\ binflight' = [binflight EXCEPT ![b] =
                        [j \in {i \in Jobs : phase[i] \in Running} |-> phase[j]]]
    /\ bcompleted' = [bcompleted EXCEPT ![b] = DOMAIN completedTasks]
    /\ UNCHANGED <<clientVars, now, metrics, phase, limiterVars, tasks, completedTasks, unhandled,
                   category, taskId, idsource, outcome, reply, bresponse, lost>>

\* barrier() after await Promise.allSettled(activeTasks), to its return
BarrierResume(b) ==
    /\ bpc[b] = "waiting"
    /\ continuations # <<>> /\ Head(continuations) = b
    /\ bpc' = [bpc EXCEPT ![b] = "returned"]
    /\ bresults' = [bresults EXCEPT ![b] = BarrierResults]
    /\ bcount' = [bcount EXCEPT ![b] = ResultsLength(BarrierResults)]
    /\ continuations' = Append(Tail(continuations), b)
    /\ UNCHANGED <<clientVars, now, metrics, phase, limiterVars, registryVars, bsnap, bresponse,
                   binflight, bcompleted, lost>>

\* one line of the response: the handler's results.map callback
ResultSummary(id, r) ==
    [taskId |-> id, job |-> r.job,
     text |-> IF ~r.success THEN "FAILED"
              ELSE IF r.result.kind = "image" /\ r.result.success THEN "Generated image(s)"
              ELSE IF r.result.kind = "tts" THEN "Generated speech"
              ELSE "Completed successfully"]

Reported == UNION {{line.job : line \in bresponse[b]} : b \in Barriers}

\* a clearing that reports its count and removes nothing
ClearNothing(completed) ==
    [count |-> Cardinality(DOMAIN completed), completedTasks |-> completed]

\* clearCompletedTasks(): count = this.completedTasks.size, clear(), return
\* count; what it returns and the map it leaves
clearCompletedTasks(completed) ==
    [count |-> Cardinality(DOMAIN completed), completedTasks |-> EmptyMap]

\* the handler after await taskManager.barrier(): format, clearCompletedTasks()
BarrierRespond(b) ==
    /\ bpc[b] = "returned"
    /\ continuations # <<>> /\ Head(continuations) = b
    /\ continuations' = Tail(continuations)
    /\ bpc' = [bpc EXCEPT ![b] = "responded"]
    /\ IF bcount[b] = 0
       THEN UNCHANGED <<bresponse, completedTasks, lost>>
       ELSE /\ bresponse' = [bresponse EXCEPT ![b] =
                    {ResultSummary(id, bresults[b][id]) : id \in DOMAIN bresults[b]}]
            /\ completedTasks' = clearCompletedTasks(completedTasks).completedTasks
            /\ lost' = lost \cup
                    ({completedTasks[id].job : id \in DOMAIN completedTasks}
                        \ ({bresults[b][id].job : id \in DOMAIN bresults[b]} \cup Reported))
    /\ UNCHANGED <<clientVars, now, metrics, phase, limiterVars, tasks, handled, unhandled, category,
                   taskId, idsource, outcome, reply, bsnap, bresults, bcount, binflight, bcompleted>>

\* --------------------------------------------------------------- the server
\* Promise callbacks are microtasks: once a callback is pending, no tool call,
\* timer or clock reading comes before it.  A work function is any
\* promise-returning function, so it may settle in any task or microtask and
\* after any number of microtasks: the callbacks of different jobs run in any
\* order, and in any order with the continuations of the barrier calls, which
\* run in the order in which they were queued.
Draining ==
    \/ \E j \in Jobs : phase[j] \in {"submitted", "granted", "settled", "recorded"}
    \/ continuations # <<>>

\* Node.js (16 or higher, README.md) ends the process when a drain of the
\* microtasks leaves a rejected promise without a reaction; otherwise the next
\* tool call, timer or clock reading comes once the microtasks are drained
Idle == ~Draining /\ unhandled = {}

Next ==
    \/ \E j \in Jobs, c \in Categories : Idle /\ Submit(j, c)
    \/ \E j \in Jobs : Start(j)
    \/ \E j \in Jobs : Admit(j)
    \/ \E j \in Jobs, r \in RemoteOutcomes : Settle(j, r, WorkFunction(category[j], r))
    \/ \E j \in Jobs : Record(j)
    \/ \E j \in Jobs : Finally(j)
    \/ \E b \in Barriers : Idle /\ BarrierCall(b)
    \/ \E b \in Barriers : BarrierResume(b)
    \/ \E b \in Barriers : BarrierRespond(b)
    \/ \E c \in Categories : Idle /\ TimerFires(c)
    \/ Idle /\ Tick(MaxServerTicks)

Spec == Init /\ [][Next]_vars

\* ------------------------------------- the manager under any work function
\* submitRateLimitedTask(type, fn) takes any promise-returning fn: what fn may
\* settle with
WorkOutcomes ==
    {Fulfilled([kind |-> "other", success |-> TRUE]),
     Rejected(RateLimitError), Rejected(GenericError)}

\* getMetrics(): getRateLimiterStatus() reads the status of every limiter
GetMetrics ==
    /\ limiters' = [c \in Categories |-> GetStatus(limiters[c], now)]
    /\ UNCHANGED <<clientVars, now, metrics, phase, arrivals, grantLog, grantTime, waited, resets, reported,
                   registryVars, barrierVars>>

\* resetMetrics(): new counts, then reset() on every limiter
ResetMetrics ==
    /\ resets < MaxResets
    /\ resets' = resets + 1
    /\ metrics' = [c \in Categories |-> NoMetrics]
    /\ limiters' = [c \in Categories |-> Reset(limiters[c], now)]
    /\ UNCHANGED <<clientVars, now, phase, arrivals, grantLog, grantTime, waited, reported,
                   registryVars, barrierVars>>

NextManager ==
    \/ \E j \in Jobs, c \in Categories : Idle /\ Submit(j, c)
    \/ \E j \in Jobs : Start(j)
    \/ \E j \in Jobs : Admit(j)
    \/ \E j \in Jobs, settled \in WorkOutcomes : Settle(j, "none", settled)
    \/ \E j \in Jobs : Record(j)
    \/ \E j \in Jobs : Finally(j)
    \/ \E c \in Categories : Idle /\ TimerFires(c)
    \/ Idle /\ Tick(MaxServerTicks)
    \/ Idle /\ GetMetrics
    \/ \E b \in Barriers : Idle /\ BarrierCall(b)
    \/ \E b \in Barriers : BarrierResume(b)
    \/ \E b \in Barriers : BarrierRespond(b)
    \/ Idle /\ ResetMetrics

SpecManager == Init /\ [][NextManager]_vars

\* ------------------------------------------------- the registry and its ids
\* submit(fn, taskId) with the id the caller passes, or with the id
\* generateTaskId() draws: a time stamp and Math.random() digits, drawn with no
\* look at the ids in tasks or completedTasks, so any id may come out; one task_barrier call
NextIds ==
    \/ \E j \in Jobs, c \in Categories, id \in TaskIds :
            Idle /\ SubmitAs(j, c, id, "supplied", MaxTasks)
    \/ \E j \in Jobs, c \in Categories, id \in TaskIds :
            Idle /\ SubmitAs(j, c, id, "generated", MaxTasks)
    \/ \E j \in Jobs : Start(j)
    \/ \E j \in Jobs : Admit(j)
    \/ \E j \in Jobs, settled \in WorkOutcomes : Settle(j, "none", settled)
    \/ \E j \in Jobs : Record(j)
    \/ \E j \in Jobs : Finally(j)
    \/ \E c \in Categories : Idle /\ TimerFires(c)
    \/ Idle /\ Tick(MaxServerTicks)
    \/ Idle /\ BarrierCall(1)
    \/ BarrierResume(1)
    \/ BarrierRespond(1)

SpecIds == Init /\ [][NextIds]_vars

\* --------------------------------------------- the wrapper of the manager
\* submitRateLimitedTask alone, under any work function: MaxCategorized tasks
\* over the two categories, one task_barrier call to take their rejections
NextWrapper ==
    \/ \E j \in Jobs, c \in Categories : Idle /\ SubmitWithin(j, c, MaxCategorized)
    \/ \E j \in Jobs : Start(j)
    \/ \E j \in Jobs : Admit(j)
    \/ \E j \in Jobs, settled \in WorkOutcomes : Settle(j, "none", settled)
    \/ \E j \in Jobs : Record(j)
    \/ \E j \in Jobs : Finally(j)
    \/ \E c \in Categories : Idle /\ TimerFires(c)
    \/ Idle /\ Tick(MaxServerTicks)
    \/ Idle /\ BarrierCall(1)
    \/ BarrierResume(1)
    \/ BarrierRespond(1)

SpecWrapper == Init /\ [][NextWrapper]_vars

\* -------------------------------------------------------------- properties
Granted == Range(grantLog)
ArrivalIndex(j) == CHOOSE i \in 1..Len(arrivals) : arrivals[i] = j
GrantIndex(j) == CHOOSE i \in 1..Len(grantLog) : grantLog[i] = j

\* C4: on a limiter that is not reset, a waiter left in the queue is granted
\* by a scheduled follow-up processQueue pass, with no later acquire() needed:
\* while a waiter is queued, a drain timer is pending (processQueue runs from
\* acquire() and from these timers only, so a queued waiter with no timer
\* pending is granted only if another caller arrives).
C4_QueuedWaiterHasDrainPending ==
    \A c \in Categories :
        (resets = 0 /\ Len(limiters[c].queue) > 0) => limiters[c].timers # <<>>

\* C7: within one limiter, two granted acquire() calls are granted in the
\* order in which they were enqueued.
C7_GrantsInArrivalOrder ==
    \A a, b \in Granted :
        (category[a] = category[b] /\ ArrivalIndex(a) < ArrivalIndex(b))
            => GrantIndex(a) < GrantIndex(b)

\* two callers waited in the queue together and both were granted, on a
\* limiter that onError has slowed down
C7_Witness ==
    \E a, b \in waited \cap Granted :
        /\ a # b
        /\ grantTime[a] > 0
        /\ limiters["image"].consecutiveErrors > 0

\* C8: with RPM = R and burst = B fixed, at most B acquires are granted at one
\* instant, and the k-th grant beyond the burst comes no earlier than
\* k * (window / R) after the first grant.
C8_BurstThenPaced ==
    LET l == limiters["image"]
        first == grantTime[grantLog[1]]
    IN /\ \A t \in 0..(MaxTicks * TickMs) :
            Cardinality({j \in Granted : grantTime[j] = t}) <= l.burst
       /\ \A k \in 1..(Len(grantLog) - l.burst) :
            (grantTime[grantLog[l.burst + k]] - first) * l.originalRpm >= k * window

\* C1: when barrier() returns, every job that was in flight when it was called
\* has settled: none is still queued on its limiter or executing, and each
\* one's outcome is recorded.
C1_BarrierWaitsForInFlight ==
    \A b \in Barriers :
        bpc[b] \in {"returned", "responded"}
            => \A j \in DOMAIN binflight[b] : phase[j] = "done"

\* a barrier called while a job was queued on its limiter has answered
C1_Witness ==
    \E b \in Barriers :
        /\ bpc[b] = "responded"
        /\ \E j \in DOMAIN binflight[b] : binflight[b][j] = "queued"

\* C2: clearCompletedTasks() never removes an outcome that no barrier response
\* has returned.
C2_NoOutcomeLost == lost = {}

\* C3: the result list of a barrier() call holds every id that was in flight
\* and every id that was completed and uncleared when the call was made.
C3_BarrierResultsExhaustive ==
    \A b \in Barriers :
        bpc[b] \in {"returned", "responded"}
            => ({taskId[j] : j \in DOMAIN binflight[b]} \cup bcompleted[b])
                    \subseteq DOMAIN bresults[b]

\* C5: no task promise is left rejected without a reaction.
C5_NoUnhandledRejection == unhandled = {}

\* C6: no id is in flight and completed at once, and the total of
\* getAllTasksStatus() counts each tracked id once.
C6_OneSetPerId ==
    /\ \A j \in Jobs : ~(taskId[j] \in DOMAIN tasks /\ taskId[j] \in DOMAIN completedTasks)
    /\ getAllTasksStatus.total = Cardinality(DOMAIN tasks \cup DOMAIN completedTasks)

\* C10: the barrier entry of a job whose remote generation call failed has
\* success = false and is rendered FAILED.
C10_FailedTaskReportedFailed ==
    \A b \in Barriers :
        /\ \A id \in DOMAIN bresults[b] :
            reply[bresults[b][id].job] \notin {"ok", "none"} => ~bresults[b][id].success
        /\ \A line \in bresponse[b] :
            reply[line.job] \notin {"ok", "none"} => line.text = "FAILED"

\* C9: resetMetrics() leaves every category's counts at zero and every
\* limiter in its initial state: no consecutive error, the configured RPM,
\* a full bucket and an empty queue.
C9_ResetRestoresInitialState ==
    [][ResetMetrics =>
        \A c \in Categories :
            /\ metrics'[c] = NoMetrics
            /\ limiters'[c].consecutiveErrors = 0
            /\ limiters'[c].rpm = Rat(limiters'[c].originalRpm, 1)
            /\ limiters'[c].tokens = limiters'[c].burst
            /\ limiters'[c].queue = <<>>]_vars

\* C11: the error recorded as a failed task's outcome has the code and the
\* message of the error the work function failed with.
C11_RecordedErrorKeepsKind ==
    \A id \in DOMAIN completedTasks :
        LET r == completedTasks[id] IN
        ~r.success =>
            /\ r.error.code = outcome[r.job].error.code
            /\ r.error.message = outcome[r.job].error.message

\* the remote service's throttling signals
Throttled == {"http429", "api1013"}

\* C12: when the wrapper of a job whose remote call was throttled handles the
\* failure, the limiter of the job's category counts one more consecutive
\* error and its RPM is below the configured RPM.
C12_ThrottlingFeedsLimiter ==
    [][\A j \in Jobs :
        (phase[j] = "executing" /\ phase'[j] = "settled" /\ reply'[j] \in Throttled)
            => /\ limiters'[category[j]].consecutiveErrors
                    = limiters[category[j]].consecutiveErrors + 1
               /\ RatLess(limiters'[category[j]].rpm,
                          Rat(limiters'[category[j]].originalRpm, 1))]_vars

\* the image limiter and the rationals of its configuration
Adaptive == limiters["image"]
OriginalRpm == Rat(Adaptive.originalRpm, 1)
Times(p, q) == Rat(p[1] * q[1], p[2] * q[2])
BackoffFactor == Rat(BackoffNum, BackoffDen)
RecoveryFactor == Rat(RecoveryNum, RecoveryDen)

RECURSIVE RatPow(_, _)
RatPow(p, n) == IF n = 0 THEN Rat(1, 1) ELSE Times(p, RatPow(p, n - 1))

\* C13: after K >= 1 rate-limit errors in a row from counter 0, the counter is
\* K and the RPM is max(1, originalRpm * backoffFactor ^ min(K, maxBackoff)).
C13_BackoffAfterKErrors ==
    LET K == reported.streak
        expected == Times(OriginalRpm, RatPow(BackoffFactor, IF K < maxBackoff THEN K ELSE maxBackoff))
    IN K > 0 =>
        /\ Adaptive.consecutiveErrors = K
        /\ Adaptive.rpm = IF RatLess(expected, Rat(1, 1)) THEN Rat(1, 1) ELSE expected

\* more errors in a row than maxBackoff, on the limiter configured with IMAGE_RPM
C13_Witness ==
    /\ reported.streak > maxBackoff
    /\ reported.op = "error"
    /\ Adaptive.originalRpm = IMAGE_RPM

\* C14: onSuccess() on a counter K >= 1 leaves the counter at K - 1; it leaves
\* the RPM unchanged while the new counter is > 0, and raises it to
\* min(originalRpm, rpm * recoveryFactor) when the new counter is 0; no other
\* onSuccess() changes the RPM.
C14_SuccessDecrementsThenRecovers ==
    [][CallOnSuccess =>
        LET K == Adaptive.consecutiveErrors
            grown == Times(Adaptive.rpm, RecoveryFactor)
        IN /\ K >= 1 => Adaptive'.consecutiveErrors = K - 1
           /\ K # 1 => Adaptive'.rpm = Adaptive.rpm
           /\ K = 1 => Adaptive'.rpm = IF RatLess(grown, OriginalRpm) THEN grown
                                        ELSE OriginalRpm]_vars

\* an onSuccess() has left the counter above 0 and the RPM penalized
C14_Witness ==
    /\ reported.op = "success"
    /\ reported.consecutiveErrors >= 2
    /\ Adaptive.consecutiveErrors = reported.consecutiveErrors - 1
    /\ RatLess(Adaptive.rpm, OriginalRpm)

\* C15: on a penalized limiter one more onSuccess() lowers the counter or
\* widens the RPM, so that a run of successes brings the RPM back to the
\* configured RPM.
C15_SuccessKeepsWidening ==
    RatLess(Adaptive.rpm, OriginalRpm) =>
        \/ OnSuccess(Adaptive).consecutiveErrors < Adaptive.consecutiveErrors
        \/ RatLess(Adaptive.rpm, OnSuccess(Adaptive).rpm)

\* C16: onError with an error that is not a rate-limit error leaves the
\* counter, the RPM (and with it the interval), the tokens and the queue
\* unchanged.
C16_OtherErrorsLeaveLimiter ==
    [][\A error \in ReportedErrors :
        (CallOnError(error) /\ error.code # "RATE_LIMIT_ERROR")
            => /\ Adaptive'.consecutiveErrors = Adaptive.consecutiveErrors
               /\ Adaptive'.rpm = Adaptive.rpm
               /\ Adaptive'.tokens = Adaptive.tokens
               /\ Adaptive'.queue = Adaptive.queue]_vars

\* an error of another kind was reported to a penalized limiter with a waiter
C16_Witness ==
    /\ reported.op = "error"
    /\ reported.class \in {"MinimaxNetworkError", "MinimaxTimeoutError"}
    /\ Adaptive.consecutiveErrors > 0
    /\ Len(Adaptive.queue) > 0

\* C17: 1 <= effective RPM <= original RPM.
C17_RpmWithinBounds ==
    /\ ~RatLess(Adaptive.rpm, Rat(1, 1))
    /\ ~RatLess(OriginalRpm, Adaptive.rpm)

\* the floor binds, after a reset() and on a limiter with waiters
C17_Witness ==
    /\ Adaptive.rpm = Rat(1, 1)
    /\ Adaptive.originalRpm = 2
    /\ resets > 0
    /\ arrivals # <<>>

C20_BarrierWaitsForSnapshotOnly ==
    \A b \in Barriers :
        (bpc[b] = "waiting" /\ \A j \in bsnap[b] : phase[j] = "done")
            => b \in Range(continuations)

\* a barrier() that waited has returned while a task submitted during its wait
\* is still running
C20_Witness ==
    \E b \in Barriers :
        /\ bpc[b] = "returned"
        /\ bsnap[b] # {}
        /\ \E j \in Jobs : j \notin bsnap[b] /\ phase[j] \in {"queued", "executing"}

\* C21: a step of a job (its acquire, its grant, the onSuccess / onError of
\* its wrapper) and a timer pass of a limiter leave the limiter of the other
\* category unchanged, and an acquire() is granted at once when its own
\* limiter holds more tokens than waiters, whatever the other queue holds.
C21_LimitersIndependent ==
    [][/\ \A j \in Jobs :
            phase'[j] # phase[j]
                => \A c \in Categories \ {category'[j]} : limiters'[c] = limiters[c]
       /\ \A c \in Categories :
            TimerFires(c) => \A d \in Categories \ {c} : limiters'[d] = limiters[d]
       /\ \A j \in Jobs :
            (Start(j) /\ limiters[category[j]].tokens > Len(limiters[category[j]].queue))
                => phase'[j] = "granted"]_vars

\* a speech task was granted at once after an image task had been queued,
\* and the image task is still waiting
C21_Witness ==
    \E a, b \in Range(arrivals) :
        /\ category[a] = "image" /\ phase[a] = "queued"
        /\ category[b] = "tts" /\ phase[b] = "granted" /\ b \notin waited
        /\ ArrivalIndex(a) < ArrivalIndex(b)

\* C22: when submit returns, the id is registered, getTaskStatus reports it
\* running, the limiter has not been asked yet and the work function has not
\* started; the work function is called only for a job whose acquire() was
\* resolved by its limiter.
C22_SubmitReturnsAtOnce ==
    [][/\ \A j \in Jobs, c \in Categories :
            SubmitWithin(j, c, MaxCategorized)
                => /\ taskId'[j] = generateTaskId(j)
                   /\ generateTaskId(j) \in DOMAIN tasks'
                   /\ getTaskStatus(generateTaskId(j))'.status = "running"
                   /\ phase'[j] = "submitted"
                   /\ limiters' = limiters
                   /\ j \notin Range(arrivals')
       /\ \A j \in Jobs : Admit(j) => j \in Granted]_vars

\* a submit has returned while an earlier task is still waiting on its limiter
C22_Witness ==
    \E j, k \in Jobs :
        /\ phase[j] = "queued"
        /\ phase[k] = "submitted"
        /\ getTaskStatus(taskId[j]).status = "running"
        /\ getTaskStatus(taskId[k]).status = "running"

\* C23: a barrier() called while no task is in flight and none is completed
\* and uncleared returns in the same step, with completed = 0 and no result;
\* the completed of every barrier() is the number of its result entries.
C23_BarrierCountsItsResults ==
    [][\A b \in Barriers :
        /\ (BarrierCall(b) /\ DOMAIN tasks = {} /\ DOMAIN completedTasks = {})
            => /\ bpc'[b] = "returned"
               /\ bcount'[b] = 0
               /\ bresults'[b] = EmptyMap
        /\ bpc'[b] \in {"returned", "responded"}
            => bcount'[b] = Cardinality(DOMAIN bresults'[b])]_vars

\* a barrier() called before any submit has returned empty, and a later one
\* has returned two entries
C23_Witness ==
    /\ bpc[1] = "responded" /\ DOMAIN binflight[1] = {} /\ bcompleted[1] = {}
    /\ bcount[1] = 0 /\ bresponse[1] = {}
    /\ bpc[2] = "returned" /\ bcount[2] = 2

\* C24: with no resetMetrics(), a barrier() is not left waiting for a task
\* that nothing will admit: while a task of its snapshot is queued on its
\* limiter, a drain timer of that limiter is pending (processQueue runs from
\* acquire() and from these timers only).
C24_WaitingBarrierHasDrainPending ==
    \A b \in Barriers :
        (resets = 0 /\ bpc[b] = "waiting")
            => \A j \in bsnap[b] :
                phase[j] = "queued" => limiters[category[j]].timers # <<>>

C26_TokensWithinBucket ==
    /\ [](\A c \in Categories : limiters[c].tokens \in 0..limiters[c].burst)
    /\ [][LET g == Len(grantLog') - Len(grantLog)
              refilled == RefillTokens(Adaptive, now).tokens
          IN g > 0 => (g <= refilled /\ Adaptive'.tokens = refilled - g)]_vars

\* the last token was taken with a waiter left behind, on a limiter that was
\* reset and that onError has slowed down
C26_Witness ==
    /\ Adaptive.tokens = 0
    /\ Len(Adaptive.queue) > 0
    /\ Len(grantLog) > Adaptive.burst
    /\ Adaptive.consecutiveErrors > 0
    /\ resets > 0

\* a caller whose acquire() is pending and who is not in the queue any more
Abandoned == {j \in Jobs : phase[j] = "queued" /\ j \notin Range(Adaptive.queue)}

\* C27: reset() leaves the queue empty and the bucket full; the waiters that
\* were queued are abandoned: their acquire() stays pending in every later
\* step, the passes of the timers set before the reset included.
C27_ResetAbandonsWaiters ==
    [][/\ LimReset => /\ Adaptive'.queue = <<>>
                      /\ Adaptive'.tokens = Adaptive.burst
                      /\ Range(Adaptive.queue) \subseteq Abandoned'
       /\ Abandoned \subseteq Abandoned'
       /\ Abandoned # {} => resets > 0]_vars

\* a waiter queued behind a burst granted at time 0 was abandoned, on a
\* limiter at its configured rate: the timers of the burst were pending at
\* the reset (a pass with the waiter queued would have resolved it) and have
\* run since
C27_Witness ==
    /\ Abandoned # {}
    /\ Adaptive.rpm = OriginalRpm
    /\ Len(grantLog) = Adaptive.burst
    /\ \A j \in Granted : grantTime[j] = 0
    /\ Adaptive.timers = <<>>

\* the jobs of category c whose chain has reached one of the phases ps
JobsAt(c, ps) == {j \in Jobs : category[j] = c /\ phase[j] \in ps}
Called == {"executing", "settled", "recorded", "done"}
Settled == {"settled", "recorded", "done"}

\* C28: the wrapper counts a request once its acquire() was resolved and
\* before the work function is called; when the work function settles it
\* counts and reports exactly one of success / error, once; a failure is
\* rethrown, so that the registry records the task with success = false.
C28_WrapperOrder ==
    /\ [](\A c \in Categories :
            /\ metrics[c].requests = Cardinality(JobsAt(c, Called))
            /\ metrics[c].successes =
                Cardinality({j \in JobsAt(c, Settled) : outcome[j].state = "fulfilled"})
            /\ metrics[c].errors =
                Cardinality({j \in JobsAt(c, Settled) : outcome[j].state = "rejected"}))
    /\ [][\A j \in Jobs :
            LET c == category[j] IN
            /\ Admit(j) => (j \in Granted /\ limiters' = limiters)
            /\ (phase[j] = "executing" /\ phase'[j] = "settled")
                => \/ /\ outcome'[j].state = "fulfilled"
                      /\ limiters'[c] = OnSuccess(limiters[c])
                   \/ /\ outcome'[j].state = "rejected"
                      /\ limiters'[c] = OnError(limiters[c], outcome'[j].error)
            /\ Record(j)
                => completedTasks'[taskId[j]].success = (outcome[j].state = "fulfilled")]_vars

\* a task whose work function failed with a rate-limit error is recorded as
\* failed, counted once, and its limiter has backed off
C28_Witness ==
    \E j \in Jobs :
        /\ phase[j] = "done"
        /\ outcome[j].state = "rejected"
        /\ taskId[j] \in DOMAIN completedTasks
        /\ ~completedTasks[taskId[j]].success
        /\ metrics[category[j]].errors = 1
        /\ limiters[category[j]].consecutiveErrors = 1

\* C29: after onError with a rate-limit error, tokens <= burst *
\* backoffFactor ^ min(consecutiveErrors, maxBackoff), and tokens is not
\* above what it was.
C29_TokensCutByBackoff ==
    [][\A error \in ReportedErrors :
        (CallOnError(error) /\ error.code = "RATE_LIMIT_ERROR")
            => LET m == RatPow(BackoffFactor, Min(Adaptive'.consecutiveErrors, maxBackoff))
               IN /\ Adaptive'.tokens * m[2] <= Adaptive.burst * m[1]
                  /\ Adaptive'.tokens <= Adaptive.tokens]_vars

\* a full bucket that no acquire() has touched was cut by a rate-limit error
C29_Witness ==
    /\ reported.op = "error"
    /\ reported.class = "MinimaxRateLimitError"
    /\ arrivals = <<>>
    /\ resets = 0
    /\ Adaptive.consecutiveErrors = 1
    /\ Adaptive.tokens = 1
    /\ Adaptive.burst = 2

\* C30: a limiter with a waiter in its queue holds no token.
C30_NoWaiterBesideToken ==
    \A c \in Categories : Len(limiters[c].queue) > 0 => limiters[c].tokens = 0

\* C31: onError with a rate-limit error leaves the RPM at or below what it
\* was.
C31_ErrorNeverRaisesRpm ==
    [][\A error \in ReportedErrors :
        (CallOnError(error) /\ error.code = "RATE_LIMIT_ERROR")
            => ~RatLess(Adaptive.rpm, Adaptive'.rpm)]_vars

\* C33: no task id stands in the result lists of two different barrier
\* responses.
C33_OutcomeReportedOnce ==
    \A b1 \in Barriers, b2 \in Barriers :
        b1 # b2 =>
            {line.taskId : line \in bresponse[b1]} \cap {line.taskId : line \in bresponse[b2]} = {}

\* C34: in every state and for each category, successes + errors <= requests,
\* and requests - successes - errors is the number of tasks of the category
\* whose work is executing.
C34_MetricsCountExecuting ==
    \A c \in Categories :
        /\ metrics[c].successes + metrics[c].errors <= metrics[c].requests
        /\ metrics[c].requests - metrics[c].successes - metrics[c].errors
                = Cardinality({j \in Jobs : phase[j] = "executing" /\ category[j] = c})

\* the times at which the clock is read
Instants == {k * TickMs : k \in 0..MaxTicks}
\* the acquires granted at a time from s to e
GrantedWithin(s, e) == {j \in Jobs : grantTime[j] >= s /\ grantTime[j] <= e}
\* burst + floor(T / interval) + 1 for a window of length T, interval = window / rpm
WindowBound(l, T) == l.burst + (T * l.rpm[1]) \div (window * l.rpm[2]) + 1

\* C35: on a fixed-rate limiter, the acquires granted within any time window
\* of length T number at most burst + floor(T / interval) + 1.
C35_GrantsWithinWindow ==
    \A s \in Instants, e \in Instants :
        s <= e => Cardinality(GrantedWithin(s, e)) <= WindowBound(Adaptive, e - s)
\* a window that is not a single instant and holds as many grants as the bound
\* allows, a waiter among them
C35_Witness ==
    \E s \in Instants, e \in Instants :
        /\ s < e
        /\ Cardinality(GrantedWithin(s, e)) = WindowBound(Adaptive, e - s)
        /\ GrantedWithin(s, e) \cap waited # {}

\* C36: clearCompletedTasks() removes every completed entry and returns the
\* number of entries it removed; it leaves the active tasks as they were, so
\* that a task running before the call is running after it, and a task that
\* settles is recorded as completed whatever was cleared before: its entry is
\* there until a later clearing takes it.
C36_ClearLeavesActiveTasks ==
    /\ [](\A j \in Jobs :
            phase[j] \in {"recorded", "done"}
                => (taskId[j] \in DOMAIN completedTasks \/ j \in lost \cup Reported))
    /\ [][\A b \in Barriers :
            (BarrierRespond(b) /\ bcount[b] # 0)
                => /\ completedTasks' = EmptyMap
                   /\ clearCompletedTasks(completedTasks).count
                        = Cardinality(DOMAIN completedTasks \ DOMAIN completedTasks')
                   /\ tasks' = tasks
                   /\ phase' = phase
                   /\ \A id \in TaskIds :
                        getTaskStatus(id).status = "running"
                            => getTaskStatus(id)'.status = "running"]_vars
\* the first barrier has responded and cleared with the first task alone in
\* its results, while the second task, running with the first when the second
\* barrier was called, has since settled and stands recorded as completed
C36_Witness ==
    /\ bpc[1] = "responded" /\ bcount[1] # 0
    /\ {line.job : line \in bresponse[1]} = {1}
    /\ {1, 2} \subseteq DOMAIN binflight[2]
    /\ getTaskStatus(taskId[2]).status = "completed"
    /\ 2 \notin lost

\* C37: no limiter exists with a burst below 1 or an RPM of 0: such a
\* configuration is rejected at construction.
C37_NoLimiterWithoutTokens ==
    \A c \in Categories : limiters[c].burst >= 1 /\ limiters[c].rpm[1] > 0

\* the work of a job has not settled yet
Unsettled == {"submitted", "queued", "granted", "executing"}

\* C32: when submit is given an id that is tracked already, all the work
\* submitted under the id stays awaited and the id stays running until the
\* last of it settles: a barrier call that has returned has seen every piece of
\* work in flight at its call through, and the status of an id under which
\* some work has not settled is running.
C32_ReusedIdStaysTracked ==
    /\ \A b \in Barriers :
            bpc[b] \in {"returned", "responded"}
                => \A j \in DOMAIN binflight[b] :
                        idsource[j] = "supplied" => phase[j] = "done"
    /\ \A j \in Jobs :
            (idsource[j] = "supplied" /\ phase[j] \in Unsettled)
                => getTaskStatus(taskId[j]).status = "running"

\* C38: the id submit generates is none of the ids the registry tracks, in
\* tasks or in completedTasks.
C38_GeneratedIdIsFresh ==
    [][\A j \in Jobs :
        (idsource[j] = "none" /\ idsource'[j] = "generated")
            => taskId'[j] \notin DOMAIN tasks \cup DOMAIN completedTasks]_vars

\* the failures shouldRetry names: a network error, a timeout, an HTTP 5xx
Retryable == {"http500", "http503", "econnrefused", "abort"}

\* C39: one makeRequest makes at most retryConfig.attempts HTTP attempts and
\* ends; another attempt is scheduled only while fewer than attempts were made
\* and only after a network error, a timeout or an HTTP 5xx, and a rate-limit
\* or other 4xx or API failure is thrown after the attempt on which it occurs.
C39_RetriesBounded ==
    /\ ~retryAttempts.nan => Len(httpLog) <= retryAttempts.n
    /\ rpc = "delaying" => (~retryAttempts.nan /\ Len(httpLog) < retryAttempts.n)
    /\ rpc = "delaying" => httpLog[Len(httpLog)] \in Retryable
    /\ (httpLog # <<>> /\ rpc # "fetching" /\ httpLog[Len(httpLog)] \notin Retryable \cup {"ok"})
            => rpc = "thrown"

====
